---- MODULE Spec2Model ----
(***************************************************************************)
(* NucDeck housing scripts (alexis-e-rose/scad): the mesh-processing       *)
(* scripts, the cutout geometry, the web viewer's HTTP handler and the     *)
(* CAD assistant's command loop, as state machines.                        *)
(*                                                                         *)
(* The mesh library (trimesh), the file system, the OpenSCAD process and   *)
(* the HTTP client are the environment: every call into them has one       *)
(* outcome per way it can end (a value, None, an exception), chosen with   *)
(* \E where the call is made or drawn in Init.                             *)
(***************************************************************************)
EXTENDS Integers, Sequences, FiniteSets, TLC

VARIABLES
    \* ---- one run of a mesh script -------------------------------------
    fn,            \* the function that was called
    pc,            \* its position: "call", a label inside it, or "done"
    ret,           \* "running", or how the call ended:
                   \*   "None" | "False" | "True" | "value" | "raised"
    printed,       \* the kinds of message it printed
    inputExists,   \* os.path.exists(<input STL>)
    loadRaises,    \* trimesh.load raises although the file exists
    mkdirRaises,   \* os.makedirs(<output dir>, exist_ok=True) raises
    \* ---- modify_front_cover / modify_front_cover_enhanced --------------
    boolResult,    \* what original_mesh.difference(cutout_mesh) gave
    exportAttempted, \* modified_mesh.export(output_file) was called
    outputWritten, \* the output STL was written in this run
    \* ---- modify_back_cover / modify_back_cover_simple -------------------
    original_volume,       \* volume of the loaded back cover
    all_cutouts,           \* per cutout built: [is_watertight, volume]
    valid_cutouts,         \* the cutouts the loop goes through, in order
    i,                     \* how many of them the loop has been through
    modified_mesh,         \* the working mesh: [volume, cut]; cut is the
                           \* set of cutouts whose difference it holds
    successful_operations,
    total_volume_removed,
    lastOutcome,           \* how the latest iteration ended
    \* ---- modify_front_cover_enhanced ----------------------------------
    vertices,      \* original_mesh.vertices: a set of <<x, y, z>>
    geometry_info, \* what analyze_mesh_at_position returned, or Unset
    cutout_depth,
    cutout_mesh,   \* the cutout that goes to the subtraction, or Unset
    repositioned,  \* the first cutout failed the validation
    \* ---- ParametricHandheldCase.export_shells --------------------------
    shell,         \* the shell the loop works on, None, or Unset
    loop_cutout,   \* the cutout of the latest iteration, or Unset
    exported,      \* the STL files written in this run
    summary_written, \* the design summary was written
    \* ---- one call of a geometry function --------------------------------
    call,          \* the function and its arguments
    returned,      \* what it returned, or Unset
    \* ---- the web viewer's server: per request -------------------------
    handler,       \* where the request is: "unsent", "arrived" (connected,
                   \* not accepted yet), a label of its handler, or "done"
    path,          \* self.path
    post_data,     \* what the client sent as headers and body
    parameters,    \* json.loads(post_data), or Unset
    cad_params,    \* the parameters converted for the automator, or Unset
    scad_file,     \* the file render_stl hands to OpenSCAD
    success,       \* what render_stl returned: "unset" | "True" | "False"
    started,       \* the status codes send_response was called with, in order
    response,      \* the JSON body the handler wrote, or Unset
    render_called, \* automator.render_stl was called for the request
    installed,     \* what check_openscad_installed returned: "unset" |
                   \* "True" | "False"
    returncode,    \* how subprocess.run(cmd) in render_stl ended: "unset",
                   \* or one of OpenscadOutcomes
    \* ---- the web viewer's server: shared files ------------------------
    custom_scad,   \* content of OpenSCAD/nucdeck_custom.scad, or Unset
    web_stl,       \* content of output/nucdeck_web_generated.stl, or Unset
    \* ---- the CAD assistant's interactive session -----------------------
    stdin,         \* the lines not read yet; <<>> is end of input
    ai_enabled,    \* OPENAI_API_KEY was set
    session,       \* "running" (at the head of the loop) or "exited"
    user_input,    \* the line read last, stripped
    dispatched,    \* the branch the last iteration took
    eof_reads,     \* how many times input() raised EOFError
    \* ---- detection and validation of the gaming controls ---------------
    circular_features,    \* the circular features detected, in order
    rectangular_features, \* the rectangular features detected, in order
    results,       \* what analyze_gaming_controls returned, or Unset
    classified,    \* what classify_detected_features returned, or Unset
    validation     \* what validate_gaming_layout returned, or Unset

env        == <<fn, inputExists, loadRaises, mkdirRaises>>
scriptVars == <<fn, pc, ret, printed, inputExists, loadRaises, mkdirRaises>>
frontVars  == <<boolResult, exportAttempted, outputWritten>>
backVars   == <<original_volume, all_cutouts, valid_cutouts, i, modified_mesh,
                successful_operations, total_volume_removed, lastOutcome>>

enhVars    == <<vertices, geometry_info, cutout_depth, cutout_mesh, repositioned>>

geomVars   == <<call, returned>>

requestVars == <<handler, path, post_data, parameters, cad_params, scad_file,
                 success, started, response, render_called, installed,
                 returncode>>
serverVars  == <<requestVars, custom_scad, web_stl>>

assistantVars == <<stdin, ai_enabled, session, user_input, dispatched, eof_reads>>

controlVars == <<circular_features, rectangular_features, results, classified,
                 validation>>

shellVars == <<shell, loop_cutout, exported, summary_written>>

meshVars == <<scriptVars, frontVars, backVars, enhVars, shellVars>>

(* What no mesh script touches.                                            *)
nonMesh == <<geomVars, serverVars, assistantVars, controlVars>>

(* What the scripts on an input STL never touch.                           *)
others == <<nonMesh, shellVars>>

(* What the geometry functions, the server, the assistant and the control  *)
(* detection never touch.                                                  *)
notGeometry  == <<meshVars, serverVars, assistantVars, controlVars>>
notServer    == <<meshVars, geomVars, assistantVars, controlVars>>
notAssistant == <<meshVars, geomVars, serverVars, controlVars>>
notControls  == <<meshVars, geomVars, serverVars, assistantVars>>

vars == <<meshVars, geomVars, serverVars, assistantVars, controlVars>>

-----------------------------------------------------------------------------
(* Functions that take an input STL and are called directly by a script.   *)
EntryFunctions ==
    { "analyze_stl_file", "comprehensive_analysis", "load_mesh",
      "analyze_front_cover_features", "modify_front_cover",
      "modify_front_cover_enhanced", "analyze_back_cover_for_modification",
      "modify_back_cover_simple", "modify_back_cover" }

(* Python values that are not meshes or numbers: None, an exception that  *)
(* was raised, a variable not assigned yet. Records, so that they compare  *)
(* with the records that model meshes.                                     *)
None   == [none |-> TRUE]
Raised == [raised |-> TRUE]
Unset  == [unset |-> TRUE]

(* trimesh.load(path): raises for a path that is not a file, and may raise *)
(* for a file it cannot parse.                                             *)
LoadFails == ~inputExists \/ loadRaises

Return(value, messages) ==
    /\ pc' = "done"
    /\ ret' = value
    /\ printed' = printed \cup messages

Goto(label, messages) ==
    /\ pc' = label
    /\ ret' = ret
    /\ printed' = printed \cup messages

-----------------------------------------------------------------------------
(* analyze_stl.py: the existence check, then the whole analysis inside a   *)
(* try whose handler prints and returns None.                              *)
analyze_stl_file ==
    /\ fn = "analyze_stl_file" /\ pc = "call"
    /\ IF ~inputExists
         THEN Return("None", {"not_found"})
         ELSE \E bodyRaises \in BOOLEAN :
                IF LoadFails \/ bodyRaises
                  THEN Return("None", {"error"})
                  ELSE Return("value", {"report"})
    /\ UNCHANGED <<others, env, frontVars, backVars, enhVars>>

(* final_stl_analysis.py: the existence check; the load and the analysis   *)
(* are not inside a try.                                                   *)
comprehensive_analysis ==
    /\ fn = "comprehensive_analysis" /\ pc = "call"
    /\ IF ~inputExists
         THEN Return("None", {"not_found"})
         ELSE \E bodyRaises \in BOOLEAN :
                IF LoadFails \/ bodyRaises
                  THEN Return("raised", {})
                  ELSE Return("value", {"report"})
    /\ UNCHANGED <<others, env, frontVars, backVars, enhVars>>

(* verify_gaming_controls.py: the existence check, then the load in a try. *)
load_mesh ==
    /\ fn = "load_mesh" /\ pc = "call"
    /\ IF ~inputExists
         THEN Return("None", {"not_found"})
         ELSE IF LoadFails
                THEN Return("None", {"error"})
                ELSE Return("value", {"report"})
    /\ UNCHANGED <<others, env, frontVars, backVars, enhVars>>

(* feature_detection.py: the existence check; load and detection unguarded. *)
analyze_front_cover_features ==
    /\ fn = "analyze_front_cover_features" /\ pc = "call"
    /\ IF ~inputExists
         THEN Return("None", {"not_found"})
         ELSE \E bodyRaises \in BOOLEAN :
                IF LoadFails \/ bodyRaises
                  THEN Return("raised", {})
                  ELSE Return("value", {"report"})
    /\ UNCHANGED <<others, env, frontVars, backVars, enhVars>>

(* phase3_back_shell.py: how analyze_back_cover_for_modification ends: the *)
(* existence check, then an unguarded load; it returns (mesh, positions,   *)
(* bounds).                                                                *)
AnalyzeBackCoverResult ==
    IF ~inputExists THEN "None"
    ELSE IF LoadFails THEN "raised"
    ELSE "value"

analyze_back_cover_for_modification ==
    /\ fn = "analyze_back_cover_for_modification" /\ pc = "call"
    /\ Return(AnalyzeBackCoverResult,
              IF AnalyzeBackCoverResult = "None" THEN {"not_found"}
              ELSE IF AnalyzeBackCoverResult = "value" THEN {"report"} ELSE {})
    /\ UNCHANGED <<others, env, frontVars, backVars, enhVars>>

-----------------------------------------------------------------------------
(* modify_front_cover.py, modify_front_cover.                              *)

(* Lines 145-168: makedirs, the existence check, the load.                 *)
modify_front_cover_load ==
    /\ fn = "modify_front_cover" /\ pc = "call"
    /\ IF mkdirRaises THEN Return("raised", {})
       ELSE IF ~inputExists THEN Return("False", {"not_found"})
       ELSE IF LoadFails THEN Return("raised", {})
       ELSE Goto("loaded", {"mesh_info"})
    /\ UNCHANGED <<others, env, frontVars, backVars, enhVars>>

(* What mesh.difference(cutout) can give: a mesh with vertices, a mesh     *)
(* without, None, or an exception (no boolean backend, bad geometry).      *)
DifferenceOutcomes == {"nonempty", "empty", "None", "raised"}

(* Lines 170-233: the cutout is built (unguarded), then the boolean        *)
(* subtraction in a try: None or no vertices, or an exception, return      *)
(* False.                                                                  *)
modify_front_cover_difference ==
    /\ fn = "modify_front_cover" /\ pc = "loaded"
    /\ \E cutoutRaises \in BOOLEAN, d \in DifferenceOutcomes :
         IF cutoutRaises
           THEN Return("raised", {}) /\ boolResult' = boolResult
           ELSE /\ boolResult' = d
                /\ IF d = "nonempty" THEN Goto("subtracted", {"boolean_ok"})
                   ELSE Return("False", {"boolean_failed"})
    /\ UNCHANGED <<others, env, exportAttempted, outputWritten, backVars, enhVars>>

(* Lines 235-242: repair_mesh and the validation prints, outside any try.  *)
modify_front_cover_repair ==
    /\ fn = "modify_front_cover" /\ pc = "subtracted"
    /\ \E repairRaises \in BOOLEAN :
         IF repairRaises THEN Return("raised", {})
         ELSE Goto("repaired", {"validated"})
    /\ UNCHANGED <<others, env, frontVars, backVars, enhVars>>

(* How the verification after the export ends (lines 250-257): exists,     *)
(* getsize and a test reload, all inside the export's try.                 *)
VerifyOutcomes == {"ok", "raised"}

(* Lines 244-263: export, then the verification, in one try whose handler  *)
(* prints "Error during export" and returns False.                         *)
modify_front_cover_export ==
    /\ fn = "modify_front_cover" /\ pc = "repaired"
    /\ exportAttempted' = TRUE
    /\ \E exportRaises \in BOOLEAN, v \in VerifyOutcomes :
         IF exportRaises
           THEN /\ outputWritten' = outputWritten
                /\ Return("False", {"export_error"})
           ELSE /\ outputWritten' = TRUE
                /\ IF v = "raised"
                     THEN Return("False", {"export_ok", "export_error"})
                     ELSE Return("True", {"export_ok"})
    /\ UNCHANGED <<others, env, boolResult, backVars, enhVars>>

-----------------------------------------------------------------------------
(* Back cover: phase3_back_shell.py (modify_back_cover) and                *)
(* enhanced_phase3.py (modify_back_cover_simple).                          *)

MaxVolume == 3

(* phase3_back_shell.py:202: the battery pocket, four electronics pockets  *)
(* and four cable channels.                                                *)
NumAllCutouts == 9
(* enhanced_phase3.py:101-107: battery, charger, boost, indicator, switch. *)
NumSimpleCutouts == 5

Indices(n) == [k \in 1..n |-> k]

(* What mesh.difference / mesh.intersection can give: an exception, None,  *)
(* or a mesh, of which the code reads the vertex count and the volume (a   *)
(* mesh without vertices has volume 0).                                    *)
MeshResults ==
    { m \in [volume : 0..MaxVolume, vertices : 0..1] :
        m.vertices = 0 => m.volume = 0 }
BooleanResults == {Raised, None} \cup MeshResults

(* enhanced_phase3.py:133: intersections below 10 mm3 are skipped.         *)
MinIntersection == 10
(* The intersection volumes tried: none, just below and at the threshold.  *)
IntersectionResults ==
    {Raised} \cup { [volume |-> v] : v \in {0, MinIntersection - 1, MinIntersection} }

Cutouts == IF fn = "modify_back_cover" THEN Indices(NumAllCutouts)
           ELSE valid_cutouts

(* Lines 145-207: the analysis (None: return False), the pockets and       *)
(* channels are built, the working mesh is a copy of the back cover.       *)
modify_back_cover_analyze ==
    /\ fn = "modify_back_cover" /\ pc = "call"
    /\ IF AnalyzeBackCoverResult = "None" THEN Return("False", {"not_found"})
       ELSE IF AnalyzeBackCoverResult = "raised" THEN Return("raised", {})
       ELSE \E buildRaises \in BOOLEAN :
              IF buildRaises THEN Return("raised", {})
              ELSE Goto("loop", {"report"})
    /\ modified_mesh' = [volume |-> original_volume, cut |-> {}]
    /\ successful_operations' = 0
    /\ i' = 0
    /\ UNCHANGED <<others, env, frontVars, enhVars, original_volume, all_cutouts,
                   valid_cutouts, total_volume_removed, lastOutcome>>

(* Lines 209-219, one iteration: the result replaces the working mesh and  *)
(* is counted when it is not None and has vertices.                        *)
modify_back_cover_subtract ==
    /\ fn = "modify_back_cover" /\ pc = "loop" /\ i < Len(Cutouts)
    /\ \E result \in BooleanResults :
         IF result \in MeshResults /\ result.vertices > 0
           THEN /\ modified_mesh' = [volume |-> result.volume,
                                     cut |-> modified_mesh.cut \cup {Cutouts[i + 1]}]
                /\ successful_operations' = successful_operations + 1
                /\ lastOutcome' = "accepted"
           ELSE /\ UNCHANGED <<modified_mesh, successful_operations>>
                /\ lastOutcome' = IF result = Raised THEN "raised" ELSE "empty"
    /\ i' = i + 1
    /\ Goto("loop", {"operation"})
    /\ UNCHANGED <<others, env, frontVars, enhVars, original_volume, all_cutouts,
                   valid_cutouts, total_volume_removed>>

(* Lines 221-238: the summary, then the repair and the volume report,      *)
(* outside any try.                                                        *)
modify_back_cover_repair ==
    /\ fn = "modify_back_cover" /\ pc = "loop" /\ i = Len(Cutouts)
    /\ \E repairRaises \in BOOLEAN :
         IF repairRaises THEN Return("raised", {"summary"})
         ELSE Goto("repaired", {"summary"})
    /\ UNCHANGED <<others, env, frontVars, backVars, enhVars>>

(* Lines 240-257: export (unguarded), then True when the file exists.      *)
modify_back_cover_export ==
    /\ fn = "modify_back_cover" /\ pc = "repaired"
    /\ exportAttempted' = TRUE
    /\ \E exportRaises \in BOOLEAN, v \in VerifyOutcomes, fileExists \in BOOLEAN :
         IF exportRaises
           THEN outputWritten' = outputWritten /\ Return("raised", {})
           ELSE IF ~fileExists
             THEN outputWritten' = outputWritten
                  /\ Return("False", {"export_failed"})
           ELSE /\ outputWritten' = TRUE
                /\ IF v = "raised" THEN Return("raised", {"export_ok"})
                   ELSE Return("True", {"export_ok"})
    /\ UNCHANGED <<others, env, boolResult, backVars, enhVars>>

(* enhanced_phase3.py:36-60: the existence check, then the load.           *)
modify_back_cover_simple_load ==
    /\ fn = "modify_back_cover_simple" /\ pc = "call"
    /\ IF ~inputExists THEN Return("False", {"not_found"})
       ELSE IF LoadFails THEN Return("raised", {})
       ELSE Goto("loaded", {"mesh_info"})
    /\ UNCHANGED <<others, env, frontVars, backVars, enhVars>>

(* What a cutout that was built can be like: closed with volume, open,    *)
(* or without volume.                                                      *)
CutoutKinds ==
    { [is_watertight |-> TRUE, volume |-> 1],
      [is_watertight |-> FALSE, volume |-> 1],
      [is_watertight |-> TRUE, volume |-> 0] }

(* A validation that lets every cutout through.                            *)
EveryCutoutValid(cutout) == TRUE

(* enhanced_phase3.py:114, parametric_handheld_case.py:452 and 479:        *)
(* cutout.is_watertight and cutout.volume > 0                              *)
IsValidCutout(cutout) == cutout.is_watertight /\ cutout.volume > 0

(* Lines 62-124: the five cutouts are built; those that are watertight     *)
(* with positive volume go to valid_cutouts; the loop's variables are set. *)
modify_back_cover_simple_validate ==
    /\ fn = "modify_back_cover_simple" /\ pc = "loaded"
    /\ \E built \in [1..NumSimpleCutouts -> CutoutKinds] :
         /\ all_cutouts' = built
         /\ valid_cutouts' = SelectSeq(Indices(NumSimpleCutouts),
                                       LAMBDA c : IsValidCutout(built[c]))
    /\ modified_mesh' = [volume |-> original_volume, cut |-> {}]
    /\ successful_operations' = 0
    /\ total_volume_removed' = 0
    /\ i' = 0
    /\ Goto("loop", {"validated"})
    /\ UNCHANGED <<others, env, frontVars, enhVars, original_volume, lastOutcome>>

(* An acceptance that does not look at the volume removed.                 *)
AcceptsAnyMesh(result) == result \in MeshResults /\ result.volume > 0

(* The result is accepted (line 141-143) when it is a mesh of positive     *)
(* volume that is smaller than the working mesh.                           *)
Accepts(result) ==
    /\ result \in MeshResults
    /\ result.volume > 0
    /\ modified_mesh.volume - result.volume > 0

(* Lines 126-154, one iteration: an intersection below 10 mm3 skips the    *)
(* cutout (an exception from the intersection does not); the difference is *)
(* accepted when it has positive volume and removed material.              *)
modify_back_cover_simple_subtract ==
    /\ fn = "modify_back_cover_simple" /\ pc = "loop" /\ i < Len(Cutouts)
    /\ \E intersection \in IntersectionResults, result \in BooleanResults :
         IF intersection # Raised /\ intersection.volume < MinIntersection
           THEN /\ UNCHANGED <<modified_mesh, successful_operations,
                               total_volume_removed>>
                /\ lastOutcome' = "skipped"
         ELSE IF Accepts(result)
           THEN /\ modified_mesh' = [volume |-> result.volume,
                                     cut |-> modified_mesh.cut \cup {Cutouts[i + 1]}]
                /\ successful_operations' = successful_operations + 1
                /\ total_volume_removed' = total_volume_removed
                                           + (modified_mesh.volume - result.volume)
                /\ lastOutcome' = "accepted"
           ELSE /\ UNCHANGED <<modified_mesh, successful_operations,
                               total_volume_removed>>
                /\ lastOutcome' = IF result = Raised THEN "raised" ELSE "rejected"
    /\ i' = i + 1
    /\ Goto("loop", {"operation"})
    /\ UNCHANGED <<others, env, frontVars, enhVars, original_volume, all_cutouts, valid_cutouts>>

(* Lines 156-174: the summary, then the cleanup in a try that only prints. *)
modify_back_cover_simple_cleanup ==
    /\ fn = "modify_back_cover_simple" /\ pc = "loop" /\ i = Len(Cutouts)
    /\ \E cleanupRaises \in BOOLEAN :
         Goto("cleaned", IF cleanupRaises THEN {"summary", "cleanup_warning"}
                         ELSE {"summary"})
    /\ UNCHANGED <<others, env, frontVars, backVars, enhVars>>

(* Lines 176-198: export and verification in one try: True when the file   *)
(* exists and reloads, False otherwise.                                    *)
modify_back_cover_simple_export ==
    /\ fn = "modify_back_cover_simple" /\ pc = "cleaned"
    /\ exportAttempted' = TRUE
    /\ \E exportRaises \in BOOLEAN, v \in VerifyOutcomes, fileExists \in BOOLEAN :
         IF exportRaises
           THEN outputWritten' = outputWritten
                /\ Return("False", {"export_failed"})
           ELSE IF ~fileExists
             THEN outputWritten' = outputWritten
                  /\ Return("False", {"export_failed"})
           ELSE /\ outputWritten' = TRUE
                /\ IF v = "raised" THEN Return("False", {"export_ok", "export_failed"})
                   ELSE Return("True", {"export_ok"})
    /\ UNCHANGED <<others, env, boolResult, backVars, enhVars>>

-----------------------------------------------------------------------------
(* Geometry. Lengths are integers in hundredths of a millimetre, so that   *)
(* the halves and the fiftieths the code takes are exact. A solid made of  *)
(* primitives is modelled by its axis-aligned bounds [lo, hi], which is    *)
(* what the code reads of it (mesh.bounds).                                *)

MM == 10 * 10

MinOf(S) == CHOOSE m \in S : \A n \in S : m <= n
MaxOf(S) == CHOOSE m \in S : \A n \in S : m >= n

(* trimesh.creation.box(extents): centred at the origin.                   *)
box(extents) ==
    [lo |-> <<-(extents[1] \div 2), -(extents[2] \div 2), -(extents[3] \div 2)>>,
     hi |-> <<extents[1] \div 2, extents[2] \div 2, extents[3] \div 2>>]

(* trimesh.creation.cylinder(radius, height, sections): along Z, centred   *)
(* at the origin; with sections a multiple of 4 it reaches radius on both  *)
(* axes.                                                                   *)
cylinder(radius, height) ==
    [lo |-> <<-radius, -radius, -(height \div 2)>>,
     hi |-> <<radius, radius, height \div 2>>]

apply_translation(m, t) ==
    [lo |-> <<m.lo[1] + t[1], m.lo[2] + t[2], m.lo[3] + t[3]>>,
     hi |-> <<m.hi[1] + t[1], m.hi[2] + t[2], m.hi[3] + t[3]>>]

(* Bounds of trimesh.util.concatenate(parts), of its convex hull and of    *)
(* the union of the parts: the smallest box holding every part.            *)
concatenate(parts) ==
    [lo |-> <<MinOf({q.lo[1] : q \in parts}), MinOf({q.lo[2] : q \in parts}),
              MinOf({q.lo[3] : q \in parts})>>,
     hi |-> <<MaxOf({q.hi[1] : q \in parts}), MaxOf({q.hi[2] : q \in parts}),
              MaxOf({q.hi[3] : q \in parts})>>]

(* The parts both cutout builders assemble: the full box, a cylinder at    *)
(* each inset corner, and four strips centred ON the box's edges           *)
(* (modify_front_cover.py:25-68, enhanced_modify_front_cover.py:68-110).   *)
RoundedParts(width, height, depth, corner_radius) ==
    LET half_w == width \div 2 - corner_radius
        half_h == height \div 2 - corner_radius
        corners == { <<half_w, half_h, 0>>, <<-half_w, half_h, 0>>,
                     <<-half_w, -half_h, 0>>, <<half_w, -half_h, 0>> }
        corner_meshes ==
            { apply_translation(cylinder(corner_radius, depth), c) : c \in corners }
        top_rect ==
            apply_translation(box(<<width - 2 * corner_radius, 2 * corner_radius, depth>>),
                              <<0, half_h + corner_radius, 0>>)
        bottom_rect ==
            apply_translation(box(<<width - 2 * corner_radius, 2 * corner_radius, depth>>),
                              <<0, -half_h - corner_radius, 0>>)
        left_rect ==
            apply_translation(box(<<2 * corner_radius, height - 2 * corner_radius, depth>>),
                              <<-half_w - corner_radius, 0, 0>>)
        right_rect ==
            apply_translation(box(<<2 * corner_radius, height - 2 * corner_radius, depth>>),
                              <<half_w + corner_radius, 0, 0>>)
    IN  {box(<<width, height, depth>>)} \cup corner_meshes
          \cup {top_rect, bottom_rect, left_rect, right_rect}

(* modify_front_cover.py:12-77.                                            *)
create_rounded_rectangle_cutout(width, height, depth, corner_radius, center) ==
    LET cutout == IF corner_radius > 0
                    THEN concatenate(RoundedParts(width, height, depth, corner_radius))
                    ELSE box(<<width, height, depth>>)
    IN  apply_translation(cutout, center)

(* enhanced_modify_front_cover.py:53-123. surface_level is None or a       *)
(* height [z |-> ..]: with a height the cutout hangs from it, whatever     *)
(* center[3] is.                                                           *)
create_precise_cutout(width, height, depth, corner_radius, center, surface_level) ==
    LET cutout_center ==
            IF surface_level # None
              THEN <<center[1], center[2], surface_level.z - depth \div 2>>
              ELSE center
        cutout == IF corner_radius > 0
                    THEN concatenate(RoundedParts(width, height, depth, corner_radius))
                    ELSE box(<<width, height, depth>>)
    IN  apply_translation(cutout, cutout_center)

Extents(m) == <<m.hi[1] - m.lo[1], m.hi[2] - m.lo[2], m.hi[3] - m.lo[3]>>
(* Twice the centre of the bounds (the sum of the two corners).            *)
Centre2(m) == <<m.hi[1] + m.lo[1], m.hi[2] + m.lo[2], m.hi[3] + m.lo[3]>>

(* enhanced_modify_front_cover.py:125-161: True when the two bounding      *)
(* boxes overlap with positive extent on all three axes.                   *)
validate_cutout_intersection(orig_bounds, cutout_bounds) ==
    LET overlap(a) == /\ cutout_bounds.lo[a] < orig_bounds.hi[a]
                      /\ cutout_bounds.hi[a] > orig_bounds.lo[a]
    IN  overlap(1) /\ overlap(2) /\ overlap(3)

-----------------------------------------------------------------------------
(* enhanced_modify_front_cover.py, analyze_mesh_at_position.               *)

(* np.histogram(z_coords, bins=50).                                        *)
Bins == 50

RECURSIVE SumZ(_)
SumZ(vs) == IF vs = {} THEN 0
            ELSE LET v == CHOOSE u \in vs : TRUE IN v[3] + SumZ(vs \ {v})

(* The histogram's range: (min, max), widened by 0.5 on both sides when    *)
(* all values are equal.                                                   *)
HistFirst(zs) == IF MinOf(zs) = MaxOf(zs) THEN MinOf(zs) - MM \div 2 ELSE MinOf(zs)
HistLast(zs)  == IF MinOf(zs) = MaxOf(zs) THEN MaxOf(zs) + MM \div 2 ELSE MaxOf(zs)

(* The bin a value falls in; the last bin is closed on the right.          *)
BinOf(z, zs) ==
    IF z = HistLast(zs) THEN Bins - 1
    ELSE ((z - HistFirst(zs)) * Bins) \div (HistLast(zs) - HistFirst(zs))

(* Lines 11-51: the vertices within search_radius of (center_x, center_y)  *)
(* in XY; None when there are none; otherwise the statistics of their Z,   *)
(* with surface_level the LEFT edge of the fullest histogram bin (the      *)
(* first one, when several are equally full). z_mean is rounded down to    *)
(* the model's unit.                                                       *)
analyze_mesh_at_position(mesh_vertices, center_x, center_y, search_radius) ==
    LET nearby_vertices ==
            { v \in mesh_vertices :
                (v[1] - center_x) * (v[1] - center_x)
                  + (v[2] - center_y) * (v[2] - center_y)
                < search_radius * search_radius }
        z_coords == { v[3] : v \in nearby_vertices }
        z_hist(k) == Cardinality({ v \in nearby_vertices : BinOf(v[3], z_coords) = k })
        peak_bin == CHOOSE k \in 0..(Bins - 1) :
                       \A j \in 0..(Bins - 1) :
                          /\ z_hist(j) <= z_hist(k)
                          /\ j < k => z_hist(j) < z_hist(k)
    IN  IF nearby_vertices = {} THEN None
        ELSE [z_min |-> MinOf(z_coords),
              z_max |-> MaxOf(z_coords),
              z_mean |-> SumZ(nearby_vertices) \div Cardinality(nearby_vertices),
              surface_level |->
                  HistFirst(z_coords)
                  + (peak_bin * (HistLast(z_coords) - HistFirst(z_coords))) \div Bins,
              vertex_count |-> Cardinality(nearby_vertices)]

(* original_mesh.bounds.                                                   *)
bounds(mesh_vertices) ==
    [lo |-> <<MinOf({v[1] : v \in mesh_vertices}), MinOf({v[2] : v \in mesh_vertices}),
              MinOf({v[3] : v \in mesh_vertices})>>,
     hi |-> <<MaxOf({v[1] : v \in mesh_vertices}), MaxOf({v[2] : v \in mesh_vertices}),
              MaxOf({v[3] : v \in mesh_vertices})>>]

-----------------------------------------------------------------------------
(* enhanced_modify_front_cover.py, modify_front_cover_enhanced.            *)

(* Lines 187-197 (the same numbers are in modify_front_cover.py:171-179).  *)
phone_width   == 152 * MM
phone_height  == 70 * MM
tolerance     == MM \div 2
corner_radius == 1 * MM
cutout_width  == phone_width + 2 * tolerance
cutout_height == phone_height + 2 * tolerance
center_x      == 147 * MM
center_y      == 9 * MM + MM \div 2
(* Line 11: search_radius=80.                                              *)
search_radius == 80 * MM
(* Line 216: cutout_depth = total_depth + 5.                               *)
cut_through_margin == 5 * MM

(* Lines 163-184: makedirs, then the load, with no existence check.        *)
modify_front_cover_enhanced_load ==
    /\ fn = "modify_front_cover_enhanced" /\ pc = "call"
    /\ IF mkdirRaises THEN Return("raised", {})
       ELSE IF LoadFails THEN Return("raised", {})
       ELSE Goto("loaded", {"mesh_info"})
    /\ UNCHANGED <<others, env, frontVars, backVars, enhVars>>

(* Lines 186-211: the analysis at the target position; None returns False. *)
modify_front_cover_enhanced_analyze ==
    /\ fn = "modify_front_cover_enhanced" /\ pc = "loaded"
    /\ geometry_info' =
          analyze_mesh_at_position(vertices, center_x, center_y, search_radius)
    /\ IF geometry_info' = None THEN Return("False", {"no_geometry"})
       ELSE Goto("analyzed", {"geometry"})
    /\ UNCHANGED <<others, env, frontVars, backVars, vertices, cutout_depth, cutout_mesh,
                   repositioned>>

(* Lines 213-255: the depth is the housing's Z extent plus 5 mm, the       *)
(* cutout hangs from the surface level; when the validation fails, a new   *)
(* cutout is centred at the mean Z of the nearby vertices. The unions in   *)
(* create_precise_cutout are not inside a try.                             *)
modify_front_cover_enhanced_cutout ==
    /\ fn = "modify_front_cover_enhanced" /\ pc = "analyzed"
    /\ LET mesh_bounds == bounds(vertices)
           total_depth == mesh_bounds.hi[3] - mesh_bounds.lo[3]
           depth       == total_depth + cut_through_margin
           surface_z   == geometry_info.surface_level
           first  == create_precise_cutout(cutout_width, cutout_height, depth,
                        corner_radius,
                        <<center_x, center_y, surface_z - depth \div 2>>,
                        [z |-> surface_z])
           second == create_precise_cutout(cutout_width, cutout_height, depth,
                        corner_radius,
                        <<center_x, center_y, geometry_info.z_mean>>, None)
           valid  == validate_cutout_intersection(mesh_bounds, first)
       IN  \E unionRaises \in BOOLEAN :
             IF unionRaises
               THEN /\ Return("raised", {})
                    /\ UNCHANGED <<cutout_depth, cutout_mesh, repositioned>>
               ELSE /\ cutout_depth' = depth
                    /\ cutout_mesh' = IF valid THEN first ELSE second
                    /\ repositioned' = ~valid
                    /\ Goto("cutout", IF valid THEN {"cutout"}
                                      ELSE {"cutout", "validation_failed"})
    /\ UNCHANGED <<others, env, frontVars, backVars, vertices, geometry_info>>

(* Lines 257-277: the subtraction in a try: None or no vertices, or an     *)
(* exception, return False.                                                *)
modify_front_cover_enhanced_difference ==
    /\ fn = "modify_front_cover_enhanced" /\ pc = "cutout"
    /\ \E d \in DifferenceOutcomes :
         /\ boolResult' = d
         /\ IF d = "nonempty" THEN Goto("subtracted", {"boolean_ok"})
            ELSE Return("False", {"boolean_failed"})
    /\ UNCHANGED <<others, env, exportAttempted, outputWritten, backVars, enhVars>>

(* Lines 279-288: the cleanup, outside any try.                            *)
modify_front_cover_enhanced_cleanup ==
    /\ fn = "modify_front_cover_enhanced" /\ pc = "subtracted"
    /\ \E cleanupRaises \in BOOLEAN :
         IF cleanupRaises THEN Return("raised", {})
         ELSE Goto("cleaned", {"cleaned"})
    /\ UNCHANGED <<others, env, frontVars, backVars, enhVars>>

(* Lines 290-305: export (unguarded), then True when the file exists.      *)
modify_front_cover_enhanced_export ==
    /\ fn = "modify_front_cover_enhanced" /\ pc = "cleaned"
    /\ exportAttempted' = TRUE
    /\ \E exportRaises \in BOOLEAN, v \in VerifyOutcomes, fileExists \in BOOLEAN :
         IF exportRaises
           THEN outputWritten' = outputWritten /\ Return("raised", {})
           ELSE IF ~fileExists
             THEN outputWritten' = outputWritten
                  /\ Return("False", {"export_failed"})
           ELSE /\ outputWritten' = TRUE
                /\ IF v = "raised" THEN Return("raised", {"export_ok"})
                   ELSE Return("True", {"export_ok"})
    /\ UNCHANGED <<others, env, boolResult, backVars, enhVars>>

-----------------------------------------------------------------------------
(* parametric_handheld_case.py: ParametricHandheldCase.export_shells with  *)
(* create_front_shell and create_back_shell.                               *)

(* Lines 413-445: the phone, two joysticks, the D-pad, four ABXY buttons,  *)
(* Start and Menu, L1, R1, L2, R2.                                         *)
NumFrontCutouts == 14
(* Lines 306-383: battery, TP4056, boost, switch, USB splitter, indicator. *)
NumElectronicsCutouts == 6

FrontFile == "Parametric_Front_Shell_S20.stl"
BackFile  == "Parametric_Back_Shell_Electronics.stl"

(* A shell is [vertices, applied]: whether it has vertices, and how many   *)
(* differences were assigned to it since the base shell.                   *)
BaseShell == [vertices |-> 1, applied |-> 0]

(* What shell.difference(cutout) can give: an exception, None, an empty    *)
(* mesh or a mesh.                                                         *)
DifferenceResults(s) ==
    {Raised, None} \cup { [vertices |-> v, applied |-> s.applied + 1] : v \in 0..1 }

shellRest == <<nonMesh, env, frontVars, enhVars, original_volume, all_cutouts,
               valid_cutouts, modified_mesh, successful_operations,
               total_volume_removed>>

(* An export that goes on to the back shell after the front shell failed.  *)
FrontFailureIgnored(messages) ==
    Goto("create_back_shell", messages \cup {"front_failed"})

(* Lines 521-523: print the failure, return False.                         *)
FrontShellFailed(messages) == Return("False", messages \cup {"front_failed"})

(* Lines 545-547                                                           *)
BackShellFailed(messages) == Return("False", messages \cup {"back_failed"})

(* Lines 493-505 and 405-448: the output directory, then create_front_shell *)
(* up to its loop: the base shell and the fourteen cutouts are built.      *)
export_shells_start ==
    /\ fn = "export_shells" /\ pc = "call"
    /\ IF mkdirRaises
         THEN Return("raised", {})
         ELSE \E buildRaises \in BOOLEAN :
                IF buildRaises THEN FrontShellFailed({"creating_front"})
                ELSE Goto("front_loop", {"creating_front"})
    /\ shell' = IF pc' = "front_loop" THEN BaseShell ELSE shell
    /\ i' = 0
    /\ UNCHANGED <<loop_cutout, exported, summary_written, lastOutcome, shellRest>>

(* Lines 450-458 and 477-485, one iteration: a cutout that is watertight   *)
(* with positive volume is subtracted and the result assigned, whatever it *)
(* is; an exception (also that of calling difference on None) is printed.  *)
ApplyCutout ==
    /\ \E kind \in CutoutKinds :
         /\ loop_cutout' = kind
         /\ IF ~IsValidCutout(kind)
              THEN shell' = shell /\ lastOutcome' = "skipped"
              ELSE IF shell = None
                THEN shell' = shell /\ lastOutcome' = "raised"
                ELSE \E result \in DifferenceResults(shell) :
                       IF result = Raised
                         THEN shell' = shell /\ lastOutcome' = "raised"
                         ELSE shell' = result /\ lastOutcome' = "applied"
    /\ i' = i + 1

create_front_shell_cutout ==
    /\ fn = "export_shells" /\ pc = "front_loop" /\ i < NumFrontCutouts
    /\ ApplyCutout
    /\ Goto("front_loop", {"front_cutout"})
    /\ UNCHANGED <<exported, summary_written, shellRest>>

(* The clean-up, the export and the report of a shell, inside the try:     *)
(* the file the run ends up with, or Raised. None has no export; the       *)
(* report can raise after the file was written.                            *)
ExportOutcomes == {"exported", "export raised", "report raised"}

(* Lines 506-523                                                           *)
export_front_shell ==
    /\ fn = "export_shells" /\ pc = "front_loop" /\ i = NumFrontCutouts
    /\ \E outcome \in ExportOutcomes :
         /\ exported' = IF shell # None /\ outcome # "export raised"
                          THEN exported \cup {FrontFile} ELSE exported
         /\ IF shell # None /\ outcome = "exported"
              THEN Goto("create_back_shell", {"front_exported"})
              ELSE FrontShellFailed({})
    /\ UNCHANGED <<shell, loop_cutout, i, summary_written, lastOutcome, shellRest>>

(* Lines 528-529 and 466-475: create_back_shell up to its loop.            *)
create_back_shell_start ==
    /\ fn = "export_shells" /\ pc = "create_back_shell"
    /\ \E buildRaises \in BOOLEAN :
         IF buildRaises THEN BackShellFailed({"creating_back"})
         ELSE Goto("back_loop", {"creating_back"})
    /\ shell' = BaseShell
    /\ i' = 0
    /\ UNCHANGED <<loop_cutout, exported, summary_written, lastOutcome, shellRest>>

create_back_shell_cutout ==
    /\ fn = "export_shells" /\ pc = "back_loop" /\ i < NumElectronicsCutouts
    /\ ApplyCutout
    /\ Goto("back_loop", {"back_cutout"})
    /\ UNCHANGED <<exported, summary_written, shellRest>>

(* Lines 530-547                                                           *)
export_back_shell ==
    /\ fn = "export_shells" /\ pc = "back_loop" /\ i = NumElectronicsCutouts
    /\ \E outcome \in ExportOutcomes :
         /\ exported' = IF shell # None /\ outcome # "export raised"
                          THEN exported \cup {BackFile} ELSE exported
         /\ IF shell # None /\ outcome = "exported"
              THEN Goto("create_design_summary", {"back_exported"})
              ELSE BackShellFailed({})
    /\ UNCHANGED <<shell, loop_cutout, i, summary_written, lastOutcome, shellRest>>

(* Lines 549-567: the summary is written outside any try, then True.       *)
create_design_summary ==
    /\ fn = "export_shells" /\ pc = "create_design_summary"
    /\ \E summaryRaises \in BOOLEAN :
         IF summaryRaises
           THEN summary_written' = FALSE /\ Return("raised", {})
           ELSE summary_written' = TRUE /\ Return("True", {"complete"})
    /\ UNCHANGED <<shell, loop_cutout, i, exported, lastOutcome, shellRest>>

-----------------------------------------------------------------------------
(* One run of one mesh script: Init draws the function that is called and  *)
(* what it finds on disk.                                                  *)

MaxZ == 2
MaxVertices == 3

(* The housings tried: up to MaxVertices vertices, at the target position  *)
(* or 50 mm beside it in Y (both within the search radius) or 100 mm       *)
(* beside it in X (outside it), at whole millimetres of height.            *)
VertexCandidates ==
    { <<x, y, z * MM>> : x \in {center_x, center_x + 100 * MM},
                         y \in {center_y, center_y + 50 * MM},
                         z \in 0..MaxZ }
Housings ==
    { m \in SUBSET VertexCandidates : m # {} /\ Cardinality(m) <= MaxVertices }

BackFunctions == {"modify_back_cover", "modify_back_cover_simple"}

ScriptIdle ==
    /\ boolResult = "unset" /\ exportAttempted = FALSE /\ outputWritten = FALSE
    /\ all_cutouts = <<>> /\ valid_cutouts = <<>> /\ i = 0
    /\ modified_mesh = Unset /\ successful_operations = 0
    /\ total_volume_removed = 0 /\ lastOutcome = "none"
    /\ geometry_info = Unset /\ cutout_depth = 0 /\ cutout_mesh = Unset
    /\ repositioned = FALSE
    /\ shell = Unset /\ loop_cutout = Unset /\ exported = {}
    /\ summary_written = FALSE

GeometryOff == call = Unset /\ returned = Unset

(* No server was started: there are no requests and no generated files.    *)
ServerOff ==
    /\ handler = <<>> /\ path = <<>> /\ post_data = <<>> /\ parameters = <<>>
    /\ cad_params = <<>> /\ scad_file = <<>> /\ success = <<>> /\ started = <<>>
    /\ response = <<>> /\ render_called = <<>>
    /\ installed = <<>> /\ returncode = <<>>
    /\ custom_scad = Unset /\ web_stl = Unset

(* No interactive session was started.                                     *)
AssistantOff ==
    /\ stdin = <<>> /\ ai_enabled = FALSE /\ session = "none"
    /\ user_input = <<>> /\ dispatched = "none" /\ eof_reads = 0

(* No control detection was run.                                           *)
ControlsOff ==
    /\ circular_features = <<>> /\ rectangular_features = <<>>
    /\ results = Unset /\ classified = Unset /\ validation = Unset

Init ==
    /\ GeometryOff /\ ServerOff /\ AssistantOff /\ ControlsOff
    /\ fn \in EntryFunctions \cup {"export_shells"}
    /\ pc = "call" /\ ret = "running" /\ printed = {}
    /\ inputExists \in IF fn \in EntryFunctions THEN BOOLEAN ELSE {FALSE}
    /\ loadRaises \in IF fn \in EntryFunctions THEN BOOLEAN ELSE {FALSE}
    /\ mkdirRaises \in BOOLEAN
    /\ ScriptIdle
    /\ vertices \in IF fn = "modify_front_cover_enhanced" /\ ~LoadFails /\ ~mkdirRaises
                      THEN Housings ELSE {{}}
    /\ original_volume \in IF fn \in BackFunctions /\ ~LoadFails
                             THEN 1..MaxVolume ELSE {0}

Next ==
    \/ analyze_stl_file
    \/ comprehensive_analysis
    \/ load_mesh
    \/ analyze_front_cover_features
    \/ analyze_back_cover_for_modification
    \/ modify_front_cover_load
    \/ modify_front_cover_difference
    \/ modify_front_cover_repair
    \/ modify_front_cover_export
    \/ modify_front_cover_enhanced_load
    \/ modify_front_cover_enhanced_analyze
    \/ modify_front_cover_enhanced_cutout
    \/ modify_front_cover_enhanced_difference
    \/ modify_front_cover_enhanced_cleanup
    \/ modify_front_cover_enhanced_export
    \/ modify_back_cover_analyze
    \/ modify_back_cover_subtract
    \/ modify_back_cover_repair
    \/ modify_back_cover_export
    \/ modify_back_cover_simple_load
    \/ modify_back_cover_simple_validate
    \/ modify_back_cover_simple_subtract
    \/ modify_back_cover_simple_cleanup
    \/ modify_back_cover_simple_export
    \/ export_shells_start
    \/ create_front_shell_cutout
    \/ export_front_shell
    \/ create_back_shell_start
    \/ create_back_shell_cutout
    \/ export_back_shell
    \/ create_design_summary

Spec == Init /\ [][Next]_vars

-----------------------------------------------------------------------------
(* Claims about the mesh scripts (specification Spec).                     *)

C1Functions ==
    { "analyze_stl_file", "comprehensive_analysis", "load_mesh",
      "analyze_front_cover_features", "modify_front_cover",
      "modify_front_cover_enhanced", "analyze_back_cover_for_modification",
      "modify_back_cover_simple" }

(* C1: each of the eight entry functions, called when its input STL is     *)
(* missing, prints a message and returns None or False and does not raise. *)
(* Read in the claim's favour: nothing but the input file is missing (the  *)
(* output directory can be created).                                       *)
C1_MissingInputHandled ==
    (fn \in C1Functions /\ ~inputExists /\ ~mkdirRaises /\ pc # "call")
        => /\ ret \in {"None", "False"}
           /\ printed # {}

(* C2: modify_front_cover returns True exactly when the modified mesh was  *)
(* written in that run; when it returns False nothing was written; and an  *)
(* export is only attempted after a non-empty boolean result.              *)
C2_TrueIffWritten ==
    (fn = "modify_front_cover" /\ pc = "done")
        => /\ (ret = "True") <=> outputWritten
           /\ (ret = "False") => ~outputWritten
           /\ exportAttempted => boolResult = "nonempty"

(* C4: in modify_front_cover_enhanced the cutout built from the surface    *)
(* level, [surface_level - cutout_depth, surface_level] in Z, contains the *)
(* housing's whole Z interval. Stated for the runs in which that cutout is *)
(* the one that goes to the subtraction.                                   *)
C4_CutsThrough ==
    (fn = "modify_front_cover_enhanced" /\ cutout_mesh # Unset /\ ~repositioned)
        => /\ cutout_mesh.lo[3] = geometry_info.surface_level - cutout_depth
           /\ cutout_mesh.hi[3] = geometry_info.surface_level
           /\ cutout_mesh.lo[3] <= bounds(vertices).lo[3]
           /\ cutout_mesh.hi[3] >= bounds(vertices).hi[3]

(* C6: modify_back_cover and modify_back_cover_simple return True only if  *)
(* at least one cutout was subtracted from the working mesh. Stated for    *)
(* the runs in which every cutout that was built went into the loop.       *)
C6_TrueOnlyIfSubtracted ==
    (fn \in BackFunctions /\ ret = "True" /\ Len(Cutouts) >= NumSimpleCutouts)
        => /\ successful_operations >= 1
           /\ modified_mesh.cut # {}

-----------------------------------------------------------------------------
(* The geometry functions on their own: Init draws a call, the action      *)
(* applies the function (specification SpecGeometry).                      *)

CutoutFunctions == {"create_rounded_rectangle_cutout", "create_precise_cutout"}

(* The Samsung S20 cutout and a small one; radius 0, 1 and 2 mm; at the    *)
(* origin and at the housing's target position; create_precise_cutout      *)
(* without a surface level and with two.                                   *)
CutoutCalls ==
    { c \in [function : CutoutFunctions,
             width : {cutout_width, 10 * MM},
             height : {cutout_height, 6 * MM},
             depth : {10 * MM, 4 * MM},
             corner_radius : {0, 1 * MM, 2 * MM},
             center : {<<0, 0, 0>>, <<center_x, center_y, 3 * MM>>},
             surface_level : {None, [z |-> 0], [z |-> 8 * MM]}] :
        c.function = "create_rounded_rectangle_cutout" => c.surface_level = None }

(* A solid housing for validate_cutout_intersection: a set of cubic cells  *)
(* <<x, y, z>> of side CellSize on a GridN x GridN x 1 grid; the cutout is *)
(* a box whose faces lie on the grid.                                      *)
GridN == 2
CellSize == 10 * MM

Cells == { <<x, y, 0>> : x \in 0..(GridN - 1), y \in 0..(GridN - 1) }
CellBox(c) ==
    [lo |-> <<c[1] * CellSize, c[2] * CellSize, c[3] * CellSize>>,
     hi |-> <<(c[1] + 1) * CellSize, (c[2] + 1) * CellSize, (c[3] + 1) * CellSize>>]
GridBoxes ==
    { [lo |-> <<x[1] * CellSize, y[1] * CellSize, z[1] * CellSize>>,
       hi |-> <<x[2] * CellSize, y[2] * CellSize, z[2] * CellSize>>] :
        x \in {e \in (0..GridN) \X (0..GridN) : e[1] < e[2]},
        y \in {e \in (0..GridN) \X (0..GridN) : e[1] < e[2]},
        z \in {e \in (0..GridN) \X (0..GridN) : e[1] < e[2]} }

ValidateCalls ==
    [function : {"validate_cutout_intersection"},
     original_mesh : (SUBSET Cells) \ {{}},
     cutout_mesh : GridBoxes]

(* mesh.bounds of a housing made of cells.                                 *)
CellBounds(cells) == concatenate({ CellBox(c) : c \in cells })

ScriptsOff ==
    /\ fn = "none" /\ pc = "idle" /\ ret = "running" /\ printed = {}
    /\ inputExists = FALSE /\ loadRaises = FALSE /\ mkdirRaises = FALSE
    /\ ScriptIdle /\ vertices = {} /\ original_volume = 0

InitGeometry ==
    /\ ScriptsOff /\ ServerOff /\ AssistantOff /\ ControlsOff
    /\ call \in CutoutCalls \cup ValidateCalls
    /\ returned = Unset

Call_create_rounded_rectangle_cutout ==
    /\ call # Unset /\ returned = Unset
    /\ call.function = "create_rounded_rectangle_cutout"
    /\ returned' = create_rounded_rectangle_cutout(call.width, call.height, call.depth,
                                                 call.corner_radius, call.center)
    /\ UNCHANGED <<call, notGeometry>>

Call_create_precise_cutout ==
    /\ call # Unset /\ returned = Unset
    /\ call.function = "create_precise_cutout"
    /\ returned' = create_precise_cutout(call.width, call.height, call.depth,
                                       call.corner_radius, call.center,
                                       call.surface_level)
    /\ UNCHANGED <<call, notGeometry>>

Call_validate_cutout_intersection ==
    /\ call # Unset /\ returned = Unset
    /\ call.function = "validate_cutout_intersection"
    /\ returned' = [value |->
                    validate_cutout_intersection(CellBounds(call.original_mesh),
                                                 call.cutout_mesh)]
    /\ UNCHANGED <<call, notGeometry>>

NextGeometry ==
    \/ Call_create_rounded_rectangle_cutout
    \/ Call_create_precise_cutout
    \/ Call_validate_cutout_intersection

SpecGeometry == InitGeometry /\ [][NextGeometry]_vars

(* The centre the caller asked for: center, or, when create_precise_cutout *)
(* is given a surface level, center in XY and depth/2 below the surface    *)
(* in Z. Doubled, to compare with Centre2.                                 *)
RequestedCentre2 ==
    IF call.surface_level # None
      THEN <<2 * call.center[1], 2 * call.center[2],
             2 * call.surface_level.z - call.depth>>
      ELSE <<2 * call.center[1], 2 * call.center[2], 2 * call.center[3]>>

(* C3: for corner_radius > 0 both cutout builders return a solid whose     *)
(* extents are exactly width x height x depth, centred where requested     *)
(* (so the S20 cutout, 152 x 70 mm plus 0.5 mm per side, is 153 x 71 mm).  *)
C3_ExactExtents ==
    (call # Unset /\ returned # Unset /\ call.function \in CutoutFunctions
       /\ call.corner_radius > 0)
        => /\ Extents(returned) = <<call.width, call.height, call.depth>>
           /\ Centre2(returned) = RequestedCentre2

(* The cutout and the housing share volume: some cell of the housing       *)
(* overlaps the cutout's box with positive extent on all three axes.       *)
ActuallyIntersects(cells, cutout) ==
    \E c \in cells : validate_cutout_intersection(CellBox(c), cutout)

(* C5: validate_cutout_intersection returns True only when the cutout      *)
(* intersects the original mesh, and False whenever the bounding boxes     *)
(* fail to overlap with positive extent on some axis.                      *)
C5_TrueOnlyIfIntersecting ==
    (call # Unset /\ returned # Unset
       /\ call.function = "validate_cutout_intersection")
        => /\ returned.value
                => ActuallyIntersects(call.original_mesh, call.cutout_mesh)
           /\ (\E a \in 1..3 :
                 \/ call.cutout_mesh.lo[a] >= CellBounds(call.original_mesh).hi[a]
                 \/ call.cutout_mesh.hi[a] <= CellBounds(call.original_mesh).lo[a])
                => ~returned.value

-----------------------------------------------------------------------------
(* web_viewer/server.py: NucDeckHTTPHandler behind socketserver.TCPServer,  *)
(* and the render it asks of cad_automator.NucDeckCADAutomator.            *)
(* Dictionaries are functions from their keys; the client, the file system *)
(* and the OpenSCAD process are the environment.                           *)

MaxReq == 2
Requests == 1..MaxReq

Paths == {"/api/regenerate", "/api/upload", "/api/other"}

EmptyDict == [k \in {} |-> 0]

(* What a client can send to /api/regenerate: a request without a          *)
(* Content-Length header, a body that is not JSON, or a JSON object.       *)
NoContentLength == [content_length |-> FALSE]
NotJson         == [content_length |-> TRUE, json |-> FALSE]
JsonBody(dict)  == [content_length |-> TRUE, json |-> TRUE, value |-> dict]

ParameterSets ==
    { [phoneWidth |-> 70],
      [phoneWidth |-> 75, batterySize |-> 5000],
      [theme |-> 1] }

Bodies == {NoContentLength, NotJson} \cup { JsonBody(d) : d \in ParameterSets }

(* Lines 46-54: the web parameters the handler knows, renamed; batterySize *)
(* (mAh) divided by 1000. The batteries tried are whole thousands, for     *)
(* which the division is exact.                                            *)
ConvertParameters(web) ==
    LET names == [phoneWidth  |-> "phone_width",
                  phoneHeight |-> "phone_height",
                  batterySize |-> "battery_height",
                  gripOffset  |-> "grip_offset"]
        known == DOMAIN web \cap DOMAIN names
        from(c) == CHOOSE k \in known : names[k] = c
    IN  [c \in { names[k] : k \in known } |->
            IF c = "battery_height" THEN web[from(c)] \div 1000
                                    ELSE web[from(c)]]

(* The SCAD text: the base file nucdeck_assembly.scad with the given       *)
(* parameter assignments replaced.                                         *)
ScadWith(params) == [overrides |-> params]

main_scad_file == ScadWith(EmptyDict)

output_stl == "/workspaces/scad/output/nucdeck_web_generated.stl"

(* A server that starts a thread per connection (ThreadingMixIn) is        *)
(* always free to take the next one.                                       *)
ThreadedServerFree == TRUE

(* socketserver.TCPServer: serve_forever takes the next connection only    *)
(* when the handler of the previous one has returned.                      *)
ServerFree == \A r \in Requests : handler[r] \in {"unsent", "arrived", "done"}

(* A client connects and sends a POST.                                     *)
Connect(r) ==
    /\ handler[r] = "unsent"
    /\ \E p \in Paths :
         \E b \in IF p = "/api/regenerate" THEN Bodies ELSE {NotJson} :
            /\ path' = [path EXCEPT ![r] = p]
            /\ post_data' = [post_data EXCEPT ![r] = b]
    /\ handler' = [handler EXCEPT ![r] = "arrived"]
    /\ UNCHANGED <<parameters, cad_params, scad_file, success, started, response,
                   render_called, installed, returncode, custom_scad, web_stl>>
    /\ UNCHANGED notServer

(* The server takes the connection and do_POST routes it. The upload       *)
(* handler and the 404 answer run to their end here: they call nothing     *)
(* that takes time. wfile.write raises when the client has gone.           *)
do_POST(r) ==
    /\ handler[r] = "arrived"
    /\ ServerFree
    /\ \/ /\ path[r] = "/api/regenerate"
          /\ handler' = [handler EXCEPT ![r] = "handle_regenerate_request"]
          /\ UNCHANGED <<started, response>>
       \/ /\ path[r] = "/api/upload"
          /\ started' = [started EXCEPT ![r] = Append(@, 200)]
          /\ \E written \in BOOLEAN :
                response' = [response EXCEPT ![r] =
                    IF written
                      THEN [code |-> 200, status |-> "success",
                            message |-> "File upload handled"]
                      ELSE @]
          /\ handler' = [handler EXCEPT ![r] = "done"]
       \/ /\ path[r] \notin {"/api/regenerate", "/api/upload"}
          /\ started' = [started EXCEPT ![r] = Append(@, 404)]
          /\ UNCHANGED response
          /\ handler' = [handler EXCEPT ![r] = "done"]
    /\ UNCHANGED <<path, post_data, parameters, cad_params, scad_file, success,
                   render_called, installed, returncode, custom_scad, web_stl>>
    /\ UNCHANGED notServer

(* Lines 32-54: read and parse the body, convert the parameters. A missing *)
(* Content-Length (int(None)) and a body that is not JSON raise.           *)
handle_regenerate_request(r) ==
    /\ handler[r] = "handle_regenerate_request"
    /\ IF post_data[r].content_length /\ post_data[r].json
         THEN /\ parameters' = [parameters EXCEPT ![r] = post_data[r].value]
              /\ cad_params' = [cad_params EXCEPT ![r] =
                                    ConvertParameters(post_data[r].value)]
              /\ handler' = [handler EXCEPT ![r] = "render_stl"]
         ELSE /\ handler' = [handler EXCEPT ![r] = "except"]
              /\ UNCHANGED <<parameters, cad_params>>
    /\ UNCHANGED <<path, post_data, scad_file, success, started, response,
                   render_called, installed, returncode, custom_scad, web_stl>>
    /\ UNCHANGED notServer

(* render_stl, lines 93-99: look for OpenSCAD; without it return False.    *)
render_stl(r) ==
    /\ handler[r] = "render_stl"
    /\ render_called' = [render_called EXCEPT ![r] = TRUE]
    /\ \E check_openscad_installed \in BOOLEAN :
         /\ installed' = [installed EXCEPT ![r] =
                IF check_openscad_installed THEN "True" ELSE "False"]
         /\ IF ~check_openscad_installed
           THEN /\ success' = [success EXCEPT ![r] = "False"]
                /\ handler' = [handler EXCEPT ![r] = "send_response"]
                /\ UNCHANGED scad_file
           ELSE IF DOMAIN cad_params[r] # {}
             THEN /\ handler' = [handler EXCEPT ![r] = "generate_scad_with_params"]
                  /\ UNCHANGED <<success, scad_file>>
             ELSE /\ scad_file' = [scad_file EXCEPT ![r] = "main"]
                  /\ handler' = [handler EXCEPT ![r] = "subprocess_run"]
                  /\ UNCHANGED success
    /\ UNCHANGED <<path, post_data, parameters, cad_params, started, response,
                   returncode, custom_scad, web_stl>>
    /\ UNCHANGED notServer

(* generate_scad_with_params: read the base file, replace the assignments, *)
(* write nucdeck_custom.scad. Opening either file can raise.               *)
generate_scad_with_params(r) ==
    /\ handler[r] = "generate_scad_with_params"
    /\ \E raised \in BOOLEAN :
         IF raised
           THEN /\ handler' = [handler EXCEPT ![r] = "except"]
                /\ UNCHANGED <<custom_scad, scad_file>>
           ELSE /\ custom_scad' = ScadWith(cad_params[r])
                /\ scad_file' = [scad_file EXCEPT ![r] = "custom"]
                /\ handler' = [handler EXCEPT ![r] = "subprocess_run"]
    /\ UNCHANGED <<path, post_data, parameters, cad_params, success, started,
                   response, render_called, installed, returncode, web_stl>>
    /\ UNCHANGED notServer

OpenscadOutcomes == {"exit 0", "exit 1", "TimeoutExpired", "raised"}

(* A render that reports True however OpenSCAD ended.                      *)
RenderAlwaysTrue(outcome) == "True"

(* render_stl, lines 111-120: True for returncode 0, False for another     *)
(* return code and for TimeoutExpired.                                     *)
RenderResult(outcome) == IF outcome = "exit 0" THEN "True" ELSE "False"

(* render_stl, lines 101-120: run openscad on the file as it is now.       *)
(* Exit code 0 is True and the STL holds the render of that file; another  *)
(* exit code and a timeout are False; any other exception propagates.      *)
subprocess_run(r) ==
    /\ handler[r] = "subprocess_run"
    /\ \E outcome \in OpenscadOutcomes :
         /\ web_stl' =
              IF outcome # "exit 0" THEN web_stl
              ELSE IF scad_file[r] = "custom"
                THEN IF custom_scad = Unset
                       THEN Unset
                       ELSE [rendered_from |-> custom_scad]
                ELSE [rendered_from |-> main_scad_file]
         /\ returncode' = [returncode EXCEPT ![r] = outcome]
         /\ success' = [success EXCEPT ![r] =
              IF outcome = "raised" THEN @ ELSE RenderResult(outcome)]
         /\ handler' = [handler EXCEPT ![r] =
              IF outcome = "raised" THEN "except" ELSE "send_response"]
    /\ UNCHANGED <<path, post_data, parameters, cad_params, scad_file, started,
                   response, render_called, installed, custom_scad>>
    /\ UNCHANGED notServer

(* Lines 64-76, still inside the try: build the answer, send_response(200) *)
(* and the headers, write the body. The write raises when the client has   *)
(* closed the connection, and the except clause takes over.                *)
send_response_200(r) ==
    /\ handler[r] = "send_response"
    /\ started' = [started EXCEPT ![r] = Append(@, 200)]
    /\ \E written \in BOOLEAN :
         IF written
           THEN /\ response' = [response EXCEPT ![r] =
                      [code |-> 200,
                       status |-> IF success[r] = "True" THEN "success" ELSE "error",
                       output_file |-> IF success[r] = "True" THEN output_stl
                                                              ELSE "null"]]
                /\ handler' = [handler EXCEPT ![r] = "done"]
           ELSE /\ handler' = [handler EXCEPT ![r] = "except"]
                /\ UNCHANGED response
    /\ UNCHANGED <<path, post_data, parameters, cad_params, scad_file, success,
                   render_called, installed, returncode, custom_scad, web_stl>>
    /\ UNCHANGED notServer

(* Lines 78-88: except Exception: send_response(500) and an error body.    *)
(* An exception of this write leaves the handler.                          *)
send_response_500(r) ==
    /\ handler[r] = "except"
    /\ started' = [started EXCEPT ![r] = Append(@, 500)]
    /\ \E written \in BOOLEAN :
         response' = [response EXCEPT ![r] =
             IF written
               THEN [code |-> 500, status |-> "error", output_file |-> "null"]
               ELSE @]
    /\ handler' = [handler EXCEPT ![r] = "done"]
    /\ UNCHANGED <<path, post_data, parameters, cad_params, scad_file, success,
                   render_called, installed, returncode, custom_scad, web_stl>>
    /\ UNCHANGED notServer

InitServer ==
    /\ ScriptsOff /\ GeometryOff /\ AssistantOff /\ ControlsOff
    /\ handler = [r \in Requests |-> "unsent"]
    /\ path = [r \in Requests |-> ""]
    /\ post_data = [r \in Requests |-> Unset]
    /\ parameters = [r \in Requests |-> Unset]
    /\ cad_params = [r \in Requests |-> Unset]
    /\ scad_file = [r \in Requests |-> "unset"]
    /\ success = [r \in Requests |-> "unset"]
    /\ started = [r \in Requests |-> <<>>]
    /\ response = [r \in Requests |-> Unset]
    /\ render_called = [r \in Requests |-> FALSE]
    /\ installed = [r \in Requests |-> "unset"]
    /\ returncode = [r \in Requests |-> "unset"]
    /\ custom_scad = Unset
    /\ web_stl = Unset

NextServer ==
    \E r \in Requests :
        \/ Connect(r)
        \/ do_POST(r)
        \/ handle_regenerate_request(r)
        \/ render_stl(r)
        \/ generate_scad_with_params(r)
        \/ subprocess_run(r)
        \/ send_response_200(r)
        \/ send_response_500(r)

SpecServer == InitServer /\ [][NextServer]_vars

(* C7: each of the two POST endpoints, /api/regenerate and /api/upload,    *)
(* hands the request to the automator's render before it answers: no       *)
(* response is started for either path unless render_stl was called.       *)
C7_BothEndpointsForward ==
    \A r \in DOMAIN handler :
        (path[r] \in {"/api/regenerate", "/api/upload"} /\ started[r] # <<>>)
            => render_called[r]

(* C8: a POST /api/regenerate gets exactly one response: 200 "success"     *)
(* with an output file when render_stl returned True, 200 "error" with a   *)
(* null output file when it returned False, 500 "error" when the handling  *)
(* raised; send_response(500) is never called after send_response(200).   *)
C8_ExactlyOneResponse ==
    \A r \in DOMAIN handler :
        path[r] = "/api/regenerate" =>
            /\ \A j, k \in DOMAIN started[r] :
                 ~(j < k /\ started[r][j] = 200 /\ started[r][k] = 500)
            /\ handler[r] = "done" => Len(started[r]) = 1
            /\ (handler[r] = "done" /\ response[r] # Unset) =>
                 /\ response[r].code = started[r][1]
                 /\ success[r] = "True" =>
                      /\ response[r].code = 200
                      /\ response[r].status = "success"
                      /\ response[r].output_file = output_stl
                 /\ success[r] = "False" =>
                      /\ response[r].code = 200
                      /\ response[r].status = "error"
                      /\ response[r].output_file = "null"
                 /\ success[r] = "unset" =>
                      /\ response[r].code = 500
                      /\ response[r].status = "error"

(* C9: requests are handled strictly one at a time: at most one request    *)
(* is inside its handler, so at most one is in render_stl; OpenSCAD reads  *)
(* the custom SCAD file written for the request it runs for; and a         *)
(* request about to answer with a successful render finds in the STL the   *)
(* render made with its own parameters.                                    *)
C9_OneAtATime ==
    /\ Cardinality({ r \in DOMAIN handler :
                       handler[r] \notin {"unsent", "arrived", "done"} }) <= 1
    /\ \A r \in DOMAIN handler :
         /\ (handler[r] = "subprocess_run" /\ scad_file[r] = "custom")
               => custom_scad = ScadWith(cad_params[r])
         /\ (handler[r] = "send_response" /\ success[r] = "True")
               => web_stl = [rendered_from |-> ScadWith(cad_params[r])]

(* A request is about to answer with its own successful render after a     *)
(* request with other parameters was answered with its render.             *)
C9_Witness ==
    \E r1, r2 \in DOMAIN handler :
        /\ r1 # r2
        /\ handler[r1] = "done" /\ response[r1] # Unset
        /\ response[r1].status = "success"
        /\ handler[r2] = "send_response" /\ success[r2] = "True"
        /\ DOMAIN cad_params[r2] # {}
        /\ cad_params[r1] # cad_params[r2]
        /\ web_stl = [rendered_from |-> ScadWith(cad_params[r2])]

-----------------------------------------------------------------------------
(* cad_assistant.py: CADAssistant.start_interactive_session.                *)
(* A line is a sequence of one-character strings.                          *)

MaxLines == 2
MaxEof == 2

Whitespace == {" ", "\t"}

LowerCase ==
    [A |-> "a", B |-> "b", C |-> "c", D |-> "d", E |-> "e", F |-> "f",
     G |-> "g", H |-> "h", I |-> "i", J |-> "j", K |-> "k", L |-> "l",
     M |-> "m", N |-> "n", O |-> "o", P |-> "p", Q |-> "q", R |-> "r",
     S |-> "s", T |-> "t", U |-> "u", V |-> "v", W |-> "w", X |-> "x",
     Y |-> "y", Z |-> "z"]

(* str.lower()                                                             *)
lower(s) ==
    [k \in 1..Len(s) |-> IF s[k] \in DOMAIN LowerCase THEN LowerCase[s[k]] ELSE s[k]]

RECURSIVE lstrip(_)
lstrip(s) ==
    IF s # <<>> /\ Head(s) \in Whitespace THEN lstrip(Tail(s)) ELSE s

RECURSIVE rstrip(_)
rstrip(s) ==
    IF s # <<>> /\ s[Len(s)] \in Whitespace
      THEN rstrip(SubSeq(s, 1, Len(s) - 1))
      ELSE s

(* str.strip()                                                             *)
strip(s) == rstrip(lstrip(s))

(* str.startswith(prefix)                                                  *)
startswith(s, prefix) ==
    Len(s) >= Len(prefix) /\ SubSeq(s, 1, Len(prefix)) = prefix

QuitWords == { <<"q", "u", "i", "t">>, <<"e", "x", "i", "t">>, <<"q">> }

(* The lines tried as input.                                               *)
Lines ==
    { <<"q", "u", "i", "t">>,
      <<"E", "x", "i", "t">>,
      <<" ", "Q", " ">>,
      <<"q", "u", "i", "t", "s">>,
      <<"h", "e", "l", "p">>,
      <<"r", "e", "n", "d", "e", "r">>,
      <<"l", "i", "s", "t", " ", "x">>,
      <<"S", "t", "a", "t", "u", "s">>,
      <<"w", "h", "y", "?">>,
      <<" ">> }

Inputs == UNION { [1..n -> Lines] : n \in 0..MaxLines }

(* Lines 57-78: the branch of the if/elif chain a stripped line takes.     *)
Branch(line, ai) ==
    IF lower(line) \in QuitWords THEN "break"
    ELSE IF lower(line) = <<"h", "e", "l", "p">> THEN "show_help"
    ELSE IF startswith(line, <<"m", "o", "d", "i", "f", "y", " ">>)
      THEN "handle_modification"
    ELSE IF startswith(line, <<"r", "e", "n", "d", "e", "r">>) THEN "handle_render"
    ELSE IF startswith(line, <<"l", "i", "s", "t", " ">>) THEN "handle_list"
    ELSE IF startswith(line, <<"c", "o", "n", "f", "i", "g", " ">>)
      THEN "handle_config"
    ELSE IF startswith(line, <<"e", "x", "p", "o", "r", "t", " ">>)
      THEN "handle_export"
    ELSE IF lower(line) = <<"s", "t", "a", "t", "u", "s">> THEN "show_status"
    ELSE IF lower(line) = <<"m", "o", "d", "e", "l", "s">> THEN "show_models"
    ELSE IF line # <<>> /\ ai THEN "handle_ai_query"
    ELSE "Unknown command"

(* How the branch's handler ends: it returns, or raises an exception that  *)
(* one of the two except clauses catches.                                  *)
HandlerOutcomes == {"returned", "Exception", "KeyboardInterrupt"}

(* One iteration of the while loop with a line to read.                    *)
ReadCommand ==
    /\ session = "running"
    /\ stdin # <<>>
    /\ stdin' = Tail(stdin)
    /\ user_input' = strip(Head(stdin))
    /\ LET branch == Branch(strip(Head(stdin)), ai_enabled)
       IN  IF branch = "break"
             THEN /\ session' = "exited"
                  /\ dispatched' = "break"
             ELSE /\ UNCHANGED session
                  /\ \E outcome \in HandlerOutcomes :
                        dispatched' =
                          IF branch \in {"show_help", "Unknown command"}
                               \/ outcome = "returned"
                            THEN branch
                            ELSE outcome
    /\ UNCHANGED <<ai_enabled, eof_reads>>
    /\ UNCHANGED notAssistant

(* One iteration of the while loop at end of input: input() raises         *)
(* EOFError, `except Exception` prints it, and the loop goes on.           *)
ReadEOF ==
    /\ session = "running"
    /\ stdin = <<>>
    /\ eof_reads < MaxEof
    /\ eof_reads' = eof_reads + 1
    /\ dispatched' = "Exception"
    /\ UNCHANGED <<stdin, ai_enabled, session, user_input>>
    /\ UNCHANGED notAssistant

InitAssistant ==
    /\ ScriptsOff /\ GeometryOff /\ ServerOff /\ ControlsOff
    /\ stdin \in Inputs
    /\ ai_enabled \in BOOLEAN
    /\ session = "running"
    /\ user_input = <<>>
    /\ dispatched = "none"
    /\ eof_reads = 0

NextAssistant ==
    \/ ReadCommand
    \/ ReadEOF

SpecAssistant == InitAssistant /\ [][NextAssistant]_vars

(* C10: the interactive session terminates: the loop is left as soon as    *)
(* the line read is quit, exit or q in any letter case, and the loop is    *)
(* not running any more once input() has met the end of the input.         *)
C10_SessionTerminates ==
    /\ lower(user_input) \in QuitWords => session = "exited"
    /\ eof_reads > 0 => session = "exited"

-----------------------------------------------------------------------------
(* C11: render_stl returns True exactly when OpenSCAD was found and the    *)
(* render process ended with exit code 0; when OpenSCAD is not installed,  *)
(* when the render exits with another code and when it times out,          *)
(* render_stl returns False (it does not raise: it has a return value).   *)
C11_RenderResult ==
    \A r \in DOMAIN handler :
        /\ success[r] = "True"
              <=> (installed[r] = "True" /\ returncode[r] = "exit 0")
        /\ (\/ installed[r] = "False"
            \/ returncode[r] \in {"exit 1", "TimeoutExpired"})
              => success[r] = "False"

(* One request's render returned True after exit code 0 and another's      *)
(* returned False after a timeout.                                         *)
C11_Witness ==
    \E r1, r2 \in DOMAIN handler :
        /\ installed[r1] = "True" /\ returncode[r1] = "exit 0"
        /\ success[r1] = "True"
        /\ installed[r2] = "True" /\ returncode[r2] = "TimeoutExpired"
        /\ success[r2] = "False"

-----------------------------------------------------------------------------
(* verify_gaming_controls.py: analyze_gaming_controls and                  *)
(* validate_gaming_layout; feature_detection.py:                           *)
(* classify_detected_features. Lengths are in units of 0.01 mm (MM).       *)
(* A detected feature is a record; its `center` stands for the object's   *)
(* identity (its place in the detection's list), the radius or the         *)
(* dimensions are what the classification looks at.                        *)

MaxFeatures == 2

(* Radii the circle fit can give between min_radius = 4 and max_radius =   *)
(* 20: inside each range, on a shared limit (5), between two ranges (7.5,  *)
(* which only classify_detected_features takes as a button), outside all.  *)
RadiusCandidates == {4 * MM, 5 * MM, 7 * MM + MM \div 2, 16 * MM, 19 * MM}

DimensionCandidates ==
    { <<24 * MM, 24 * MM>>, <<24 * MM, 30 * MM>>, <<10 * MM, 5 * MM>>,
      <<18 * MM, 8 * MM>>, <<40 * MM, 40 * MM>> }

SeqsUpTo(S, n) == UNION { [1..k -> S] : k \in 0..n }

DetectedCircular ==
    { [k \in DOMAIN radii |-> [center |-> k, radius |-> radii[k]]] :
        radii \in SeqsUpTo(RadiusCandidates, MaxFeatures) }

DetectedRectangular ==
    { [k \in DOMAIN dims |-> [center |-> k, dimensions |-> dims[k]]] :
        dims \in SeqsUpTo(DimensionCandidates, MaxFeatures) }

Between(lo, x, hi) == lo * MM <= x /\ x <= hi * MM

Abs(x) == IF x < 0 THEN -x ELSE x

(* A list that loses what is appended to it.                               *)
AppendNothing(lists, category, entry) == lists

(* results[category].append(entry)                                         *)
AppendTo(lists, category, entry) ==
    [lists EXCEPT ![category] = Append(@, entry)]

(* analyze_gaming_controls, lines 204-232: the if/elif chain on the radius *)
HoleCategory(radius) ==
    IF Between(14, radius, 18) THEN "joysticks"
    ELSE IF Between(5, radius, 7) THEN "abxy"
    ELSE IF Between(3, radius, 5) THEN "start_menu"
    ELSE "other_features"

HoleType ==
    [joysticks |-> "joystick", abxy |-> "abxy", start_menu |-> "start_menu"]

(* analyze_gaming_controls, lines 241-266: the chain on the dimensions     *)
RectCategory(dims) ==
    IF Between(20, dims[1], 30) /\ Between(20, dims[2], 30) THEN "dpad"
    ELSE IF \/ Between(8, dims[1], 15) /\ Between(3, dims[2], 6)
            \/ Between(3, dims[1], 6) /\ Between(8, dims[2], 15)
      THEN "shoulder_buttons"
    ELSE IF \/ Between(15, dims[1], 25) /\ Between(6, dims[2], 12)
            \/ Between(6, dims[1], 12) /\ Between(15, dims[2], 25)
      THEN "triggers"
    ELSE "other_features"

RectType == [dpad |-> "dpad", shoulder_buttons |-> "shoulder", triggers |-> "trigger"]

(* The loop of lines 200-232.                                              *)
RECURSIVE ClassifyHoles(_, _)
ClassifyHoles(holes, res) ==
    IF holes = <<>> THEN res
    ELSE LET hole == Head(holes)
             category == HoleCategory(hole.radius)
             entry == IF category = "other_features" THEN hole
                      ELSE [center |-> hole.center, radius |-> hole.radius,
                            diameter |-> hole.radius * 2,
                            type |-> HoleType[category]]
         IN  ClassifyHoles(Tail(holes), AppendTo(res, category, entry))

(* The loop of lines 237-266.                                              *)
RECURSIVE ClassifyRects(_, _)
ClassifyRects(rects, res) ==
    IF rects = <<>> THEN res
    ELSE LET rect == Head(rects)
             category == RectCategory(rect.dimensions)
             entry == IF category = "other_features" THEN rect
                      ELSE [center |-> rect.center, dimensions |-> rect.dimensions,
                            type |-> RectType[category]]
         IN  ClassifyRects(Tail(rects), AppendTo(res, category, entry))

EmptyResults ==
    [joysticks |-> <<>>, dpad |-> <<>>, abxy |-> <<>>, start_menu |-> <<>>,
     shoulder_buttons |-> <<>>, triggers |-> <<>>, other_features |-> <<>>]

analyze_gaming_controls ==
    /\ results = Unset
    /\ results' = ClassifyRects(rectangular_features,
                                ClassifyHoles(circular_features, EmptyResults))
    /\ UNCHANGED <<circular_features, rectangular_features, classified, validation>>
    /\ UNCHANGED notControls

(* classify_detected_features, lines 151-162 and 170-179: each feature     *)
(* gets a 'type' and goes to one list.                                     *)
FeatureCategory(feature) ==
    IF "radius" \in DOMAIN feature
      THEN IF Between(14, feature.radius, 18) THEN "joysticks"
           ELSE IF Between(5, feature.radius, 8) THEN "large_buttons"
           ELSE IF Between(3, feature.radius, 5) THEN "small_buttons"
           ELSE "unknown_circular"
      ELSE LET dims == feature.dimensions
           IN  IF /\ Between(20, dims[1], 30) /\ Between(20, dims[2], 30)
                  /\ Abs(dims[1] - dims[2]) < 5 * MM
                 THEN "dpad"
               ELSE IF /\ Between(15, MaxOf({dims[1], dims[2]}), 22)
                       /\ Between(6, MinOf({dims[1], dims[2]}), 10)
                 THEN "triggers"
               ELSE "unknown_rectangular"

FeatureType ==
    [joysticks |-> "joystick", large_buttons |-> "large_button",
     small_buttons |-> "small_button", dpad |-> "dpad", triggers |-> "trigger",
     unknown_circular |-> "unknown", unknown_rectangular |-> "unknown"]

RECURSIVE ClassifyFeatures(_, _)
ClassifyFeatures(features, res) ==
    IF features = <<>> THEN res
    ELSE LET feature == Head(features)
             category == FeatureCategory(feature)
             typed == IF "radius" \in DOMAIN feature
                        THEN [center |-> feature.center, radius |-> feature.radius,
                              type |-> FeatureType[category]]
                        ELSE [center |-> feature.center,
                              dimensions |-> feature.dimensions,
                              type |-> FeatureType[category]]
         IN  ClassifyFeatures(Tail(features), AppendTo(res, category, typed))

EmptyClassified ==
    [joysticks |-> <<>>, large_buttons |-> <<>>, small_buttons |-> <<>>,
     dpad |-> <<>>, triggers |-> <<>>, unknown_circular |-> <<>>,
     unknown_rectangular |-> <<>>]

classify_detected_features ==
    /\ classified = Unset
    /\ classified' = ClassifyFeatures(rectangular_features,
                         ClassifyFeatures(circular_features, EmptyClassified))
    /\ UNCHANGED <<circular_features, rectangular_features, results, validation>>
    /\ UNCHANGED notControls

ControlTypes ==
    {"joysticks", "dpad", "abxy", "start_menu", "shoulder_buttons", "triggers"}

(* validate_gaming_layout, lines 276-283: 'expected' of each control type  *)
expected ==
    [joysticks |-> 2, dpad |-> 1, abxy |-> 4, start_menu |-> 2,
     shoulder_buttons |-> 2, triggers |-> 2]

(* A validation that accepts a surplus.                                    *)
ValidWithSurplus(found, wanted) == found >= wanted

(* Lines 290-298: data['valid']                                            *)
Valid(found, wanted) ==
    IF found = wanted THEN TRUE
    ELSE IF found > wanted THEN FALSE
    ELSE FALSE

(* validate_gaming_layout: (all_valid, validation)                         *)
ValidateLayout(res) ==
    LET table == [t \in ControlTypes |->
                    [expected |-> expected[t],
                     found |-> Len(res[t]),
                     valid |-> Valid(Len(res[t]), expected[t])]]
    IN  [all_valid |-> \A t \in ControlTypes : table[t].valid,
         validation |-> table]

validate_gaming_layout ==
    /\ results # Unset /\ validation = Unset
    /\ validation' = ValidateLayout(results)
    /\ UNCHANGED <<circular_features, rectangular_features, results, classified>>
    /\ UNCHANGED notControls

InitControls ==
    /\ ScriptsOff /\ GeometryOff /\ ServerOff /\ AssistantOff
    /\ circular_features \in DetectedCircular
    /\ rectangular_features \in DetectedRectangular
    /\ results = Unset /\ classified = Unset /\ validation = Unset

NextControls ==
    \/ analyze_gaming_controls
    \/ classify_detected_features
    \/ validate_gaming_layout

SpecControls == InitControls /\ [][NextControls]_vars

(* The detected feature an entry of a result list was made from.           *)
SourceOf(entry) ==
    IF "radius" \in DOMAIN entry
      THEN [center |-> entry.center, radius |-> entry.radius]
      ELSE [center |-> entry.center, dimensions |-> entry.dimensions]

(* How many entries of the lists of `res` were made from `feature`.        *)
Occurrences(res, feature) ==
    Cardinality({ <<c, k>> \in UNION { {c} \X DOMAIN res[c] : c \in DOMAIN res } :
                    SourceOf(res[c][k]) = feature })

TotalEntries(res) ==
    Cardinality(UNION { {c} \X DOMAIN res[c] : c \in DOMAIN res })

Partition(res) ==
    /\ \A k \in DOMAIN circular_features :
          Occurrences(res, circular_features[k]) = 1
    /\ \A k \in DOMAIN rectangular_features :
          Occurrences(res, rectangular_features[k]) = 1
    /\ TotalEntries(res) = Len(circular_features) + Len(rectangular_features)

(* C18: classification is a partition: the lists analyze_gaming_controls   *)
(* returns, and the lists classify_detected_features returns, together     *)
(* hold each detected circular and rectangular feature exactly once and    *)
(* nothing else.                                                           *)
C18_Partition ==
    /\ results # Unset => Partition(results)
    /\ classified # Unset => Partition(classified)

(* Both classifications ran on a radius that two ranges claim (5 mm) and   *)
(* on a feature that only one of them knows.                               *)
C18_Witness ==
    /\ results # Unset /\ classified # Unset
    /\ Len(circular_features) = MaxFeatures
    /\ \E k \in DOMAIN circular_features : circular_features[k].radius = 5 * MM
    /\ Len(rectangular_features) >= 1
    /\ results.other_features # <<>>

-----------------------------------------------------------------------------
(* validate_gaming_layout on any result of a detection: each control type  *)
(* found from 0 times up to MaxSurplus more often than expected.           *)

MaxSurplus == 1

LayoutResults ==
    { [c \in DOMAIN EmptyResults |->
          IF c \in ControlTypes
            THEN [k \in 1..n[c] |-> [center |-> k, type |-> c]]
            ELSE <<>>] :
        n \in { m \in [ControlTypes -> 0..(4 + MaxSurplus)] :
                  \A t \in ControlTypes : m[t] <= expected[t] + MaxSurplus } }

InitLayout ==
    /\ ScriptsOff /\ GeometryOff /\ ServerOff /\ AssistantOff
    /\ circular_features = <<>> /\ rectangular_features = <<>>
    /\ results \in LayoutResults
    /\ classified = Unset /\ validation = Unset

NextLayout == validate_gaming_layout

SpecLayout == InitLayout /\ [][NextLayout]_vars

(* The counts the layout is expected to have: 2 joysticks, 1 D-pad,        *)
(* 4 ABXY, 2 Start/Menu, 2 shoulder buttons, 2 triggers.                   *)
LayoutCounts ==
    [joysticks |-> 2, dpad |-> 1, abxy |-> 4, start_menu |-> 2,
     shoulder_buttons |-> 2, triggers |-> 2]

(* C12: validate_gaming_layout returns True exactly when every control     *)
(* type was found as often as expected; a shortfall and a surplus both     *)
(* make the layout invalid, and each type's 'valid' is found == expected.  *)
C12_ValidIffExact ==
    validation # Unset =>
        /\ validation.all_valid
             <=> \A t \in ControlTypes : Len(results[t]) = LayoutCounts[t]
        /\ \A t \in ControlTypes :
             /\ validation.validation[t].found = Len(results[t])
             /\ validation.validation[t].expected = LayoutCounts[t]
             /\ validation.validation[t].valid
                  <=> (validation.validation[t].found
                         = validation.validation[t].expected)

(* A layout that has every control as expected but one ABXY button too     *)
(* many was validated.                                                     *)
C12_Witness ==
    /\ validation # Unset
    /\ Len(results.abxy) = LayoutCounts.abxy + 1
    /\ \A t \in ControlTypes \ {"abxy"} : Len(results[t]) = LayoutCounts[t]
    /\ ~validation.all_valid

-----------------------------------------------------------------------------
(* Claims about the subtraction loops of the back cover scripts.           *)

InSimpleLoop ==
    fn = "modify_back_cover_simple" /\ modified_mesh # Unset

C16_Accounting ==
    InSimpleLoop =>
        /\ modified_mesh.volume = original_volume - total_volume_removed
        /\ successful_operations = Cardinality(modified_mesh.cut)
        /\ successful_operations <= Len(valid_cutouts)
        /\ successful_operations <= i

C16_Iteration ==
    (InSimpleLoop /\ pc = "loop" /\ i' = i + 1) =>
        /\ modified_mesh'.volume <= modified_mesh.volume
        /\ lastOutcome' = "accepted" =>
             /\ successful_operations' = successful_operations + 1
             /\ modified_mesh'.cut = modified_mesh.cut \cup {valid_cutouts[i']}
        /\ lastOutcome' # "accepted" =>
             UNCHANGED <<modified_mesh, successful_operations, total_volume_removed>>
        /\ modified_mesh'.volume = modified_mesh.volume =>
             UNCHANGED <<modified_mesh, successful_operations, total_volume_removed>>

(* C16: in modify_back_cover_simple, after every iteration of the loop,    *)
(* the working volume is the original volume minus total_volume_removed    *)
(* and never increases, successful_operations counts the cutouts accepted  *)
(* so far and is at most the number of valid cutouts; a cutout that is     *)
(* skipped for its small intersection or whose difference removes nothing  *)
(* leaves the mesh and both counters unchanged.                            *)
C16_LoopInvariants == [](C16_Accounting) /\ [][C16_Iteration]_vars

(* The loop accepted a cutout, then skipped one for its intersection.      *)
C16_Witness ==
    /\ InSimpleLoop /\ i >= 2
    /\ successful_operations >= 1 /\ total_volume_removed >= 1
    /\ lastOutcome = "skipped"
    /\ Len(valid_cutouts) > successful_operations

-----------------------------------------------------------------------------
(* Claims about ParametricHandheldCase.export_shells and the loops of      *)
(* cutouts.                                                                *)

(* C13: export_shells generates and exports the front shell before the     *)
(* back shell and stops at the first failure: it returns True only if both *)
(* STL files were exported in the run and the design summary was written,  *)
(* and once the front shell's generation or export has failed the back     *)
(* shell is never generated.                                               *)
C13_FrontThenBack ==
    fn = "export_shells" =>
        /\ ret = "True" => /\ exported = {FrontFile, BackFile}
                           /\ summary_written
        /\ "creating_back" \in printed => /\ "front_exported" \in printed
                                          /\ FrontFile \in exported
        /\ BackFile \in exported => FrontFile \in exported
        /\ "front_failed" \in printed => /\ "creating_back" \notin printed
                                         /\ BackFile \notin exported
                                         /\ pc = "done" /\ ret = "False"
        /\ "back_failed" \in printed => /\ ~summary_written
                                        /\ pc = "done" /\ ret = "False"

(* The front shell was written but its report raised: the run ended with   *)
(* False before the back shell.                                            *)
C13_Witness ==
    /\ fn = "export_shells" /\ pc = "done" /\ ret = "False"
    /\ "front_failed" \in printed
    /\ exported = {FrontFile}
    /\ i = NumFrontCutouts

Range(seq) == { seq[k] : k \in DOMAIN seq }

(* C14: in modify_back_cover_simple and in create_front_shell and          *)
(* create_back_shell a cutout is subtracted only if it is watertight and   *)
(* has positive volume; a cutout that fails either test is skipped and     *)
(* never reaches the boolean difference.                                   *)
C14_OnlyValidSubtracted ==
    /\ (fn = "modify_back_cover_simple" /\ modified_mesh # Unset) =>
          /\ \A c \in Range(valid_cutouts) \cup modified_mesh.cut :
                all_cutouts[c].is_watertight /\ all_cutouts[c].volume > 0
          /\ \A c \in DOMAIN all_cutouts :
                (~all_cutouts[c].is_watertight \/ all_cutouts[c].volume <= 0)
                    => c \notin Range(valid_cutouts)
    /\ (fn = "export_shells" /\ loop_cutout # Unset) =>
          /\ lastOutcome \in {"applied", "raised"}
                => loop_cutout.is_watertight /\ loop_cutout.volume > 0
          /\ (~loop_cutout.is_watertight \/ loop_cutout.volume <= 0)
                => lastOutcome = "skipped"

(* modify_back_cover_simple built an open cutout and one without volume    *)
(* and subtracted another.                                                 *)
C14_Witness ==
    /\ fn = "modify_back_cover_simple" /\ modified_mesh # Unset
    /\ \E c \in DOMAIN all_cutouts : ~all_cutouts[c].is_watertight
    /\ \E c \in DOMAIN all_cutouts : all_cutouts[c].volume = 0
    /\ successful_operations >= 1
    /\ i = Len(valid_cutouts)

C15_Iteration ==
    /\ (fn \in BackFunctions /\ pc = "loop" /\ i' = i + 1
          /\ lastOutcome' \in {"raised", "empty", "rejected"})
         => /\ modified_mesh' = modified_mesh
            /\ pc' = "loop"
    /\ (fn = "export_shells" /\ pc \in {"front_loop", "back_loop"} /\ i' = i + 1)
         => /\ \/ shell' = shell
               \/ shell' # None /\ shell'.vertices > 0
            /\ pc' = pc

(* C15: in the scripts that apply a list of cutouts one after another      *)
(* (modify_back_cover, modify_back_cover_simple, create_front_shell,       *)
(* create_back_shell) a difference that fails, by raising or by giving     *)
(* None or an empty mesh, leaves the working mesh as it was before that    *)
(* cutout, and the loop goes on to the remaining cutouts with that mesh.   *)
C15_FailedDifferenceKeepsMesh == [][C15_Iteration]_vars

-----------------------------------------------------------------------------
(* C17: in modify_front_cover_enhanced the cutout that goes to the boolean *)
(* subtraction overlaps the housing's bounding box on all three axes: when *)
(* the cutout hung from the surface level fails                            *)
(* validate_cutout_intersection, the one centred at the mean Z of the      *)
(* nearby vertices passes it.                                              *)
C17_SubtractedCutoutOverlaps ==
    (fn = "modify_front_cover_enhanced" /\ cutout_mesh # Unset)
        => validate_cutout_intersection(bounds(vertices), cutout_mesh)

====
